---------------------------- MODULE Spec2Model ----------------------------
(***************************************************************************)
(* Model of script.py: the import-graph builder (build_import_graph,       *)
(* parse_imports), the dead-code marker (mark_dead_code), the renderer     *)
(* (create_interactive_graph) and the click handler of the generated page. *)
(*                                                                         *)
(* Node identities are Python strings and are modelled as strings, built   *)
(* by the same concatenations the f-strings of the source perform, so that *)
(* two identities collide in the model exactly when they do in the code.   *)
(***************************************************************************)
EXTENDS Integers, Sequences, FiniteSets, TLC

(***************************************************************************)
(* Bounds of the model.                                                    *)
(***************************************************************************)
\* number of .py files os.walk finds under the directory
NumFiles == 2
\* number of declaration/import statements in one file (at any nesting)
MaxNodes == 2
\* number of clicks on the page in one session
MaxClicks == 1

(***************************************************************************)
(* Input: the directory.  A file is either unparseable or holds a syntax   *)
(* tree.  Only the statements the program looks at are kept in the tree:   *)
(* def, class, import and from-import.  An empty body stands for "pass".   *)
(***************************************************************************)
FileNames == <<"a.py", "b.py", "c.py", "d.py">>

\* os.path.join(root, file), script.py line 59
join(root, file) == root \o "/" \o file

Directory == "."

Paths == {join(Directory, FileNames[i]) : i \in 1..NumFiles}

DeclNames == {"f", "g"}

Unparseable == [kind |-> "SyntaxError", name |-> "", module |-> "", names |-> <<>>, body |-> <<>>]

Module(body) == [kind |-> "Module", name |-> "", module |-> "", names |-> <<>>, body |-> body]

FunctionDef(name, body) == [kind |-> "FunctionDef", name |-> name, module |-> "", names |-> <<>>, body |-> body]

ClassDef(name, body) == [kind |-> "ClassDef", name |-> name, module |-> "", names |-> <<>>, body |-> body]

\* import a.b
Import(names) == [kind |-> "Import", name |-> "", module |-> "", names |-> names, body |-> <<>>]

\* from a import b; module "" is Python's None (from . import b)
ImportFrom(module, names) == [kind |-> "ImportFrom", name |-> "", module |-> module, names |-> names, body |-> <<>>]

ImportStmts == {Import(<<"a.b">>), ImportFrom("a", <<"b">>), ImportFrom("", <<"b">>)}

RECURSIVE Trees(_), Forests(_)
\* the statements made of exactly n def/class/import nodes
Trees(n) ==
  IF n = 1
  THEN ImportStmts \cup {FunctionDef(nm, <<>>) : nm \in DeclNames}
                   \cup {ClassDef(nm, <<>>) : nm \in DeclNames}
  ELSE {FunctionDef(nm, b) : nm \in DeclNames, b \in Forests(n - 1)}
       \cup {ClassDef(nm, b) : nm \in DeclNames, b \in Forests(n - 1)}

\* the statement lists made of exactly n nodes
Forests(n) ==
  IF n = 0
  THEN {<<>>}
  ELSE UNION {{<<t>> \o f : t \in Trees(i), f \in Forests(n - i)} : i \in 1..n}

Contents == {Unparseable} \cup UNION {{Module(b) : b \in Forests(n)} : n \in 0..MaxNodes}

(***************************************************************************)
(* ast.walk: breadth-first, the root first.                                *)
(***************************************************************************)
\* ast.iter_child_nodes restricted to statements
iter_child_nodes(node) == node.body

RECURSIVE walk_todo(_)
walk_todo(todo) ==
  IF todo = <<>>
  THEN <<>>
  ELSE <<Head(todo)>> \o walk_todo(Tail(todo) \o iter_child_nodes(Head(todo)))

walk(tree) == walk_todo(<<tree>>)

(***************************************************************************)
(* ast.unparse: the reconstructed source text of a statement.              *)
(***************************************************************************)
RECURSIVE JoinNames(_)
JoinNames(names) ==
  IF Len(names) = 1 THEN names[1] ELSE names[1] \o ", " \o JoinNames(Tail(names))

RECURSIVE unparse(_, _), unparse_stmts(_, _)
\* the text of a statement that starts the output, at an indentation
unparse(node, indent) ==
  LET block == IF node.body = <<>>
               THEN "\n" \o indent \o "    pass"
               ELSE unparse_stmts(node.body, indent \o "    ")
  IN CASE node.kind = "FunctionDef" -> indent \o "def " \o node.name \o "():" \o block
       [] node.kind = "ClassDef" -> indent \o "class " \o node.name \o ":" \o block
       [] node.kind = "Import" -> indent \o "import " \o JoinNames(node.names)
       [] node.kind = "ImportFrom" ->
            indent \o "from " \o (IF node.module = "" THEN "." ELSE node.module)
                   \o " import " \o JoinNames(node.names)
       [] OTHER -> ""

\* the statements of a body that follows other output: each on a new line,
\* a def or class after a blank line
unparse_stmts(body, indent) ==
  IF body = <<>>
  THEN ""
  ELSE (IF body[1].kind \in {"FunctionDef", "ClassDef"} THEN "\n\n" ELSE "\n")
       \o unparse(body[1], indent) \o unparse_stmts(Tail(body), indent)

get_function_code(node) == unparse(node, "")

get_class_code(node) == unparse(node, "")

(***************************************************************************)
(* The networkx DiGraph: node -> attribute dict, and a set of edges.       *)
(***************************************************************************)
EmptyGraph == [nodes |-> <<>>, edges |-> {}]

\* G.add_node(n, color=..., type=...): a node that exists gets its attributes updated
add_node(G, n, attrs) == [G EXCEPT !.nodes = (n :> attrs) @@ @]

\* G.add_edge(u, v); both ends exist at every call of the program
add_edge(G, e) == [G EXCEPT !.edges = @ \cup {e}]

out_degree(G, n) == Cardinality({e \in G.edges : e[1] = n})

\* line 61
FileAttrs == [color |-> "blue", type |-> "file"]

\* line 70
FunctionAttrs == [color |-> "green", type |-> "function"]

ClassAttrsGreen == [color |-> "green", type |-> "class"]

\* line 75
ClassAttrs == [color |-> "red", type |-> "class"]

\* line 81
MethodAttrs == [color |-> "green", type |-> "function"]

\* line 87
ModuleAttrs == [color |-> "yellow", type |-> "module"]

function_name_unqualified(file_node, name) == name

\* line 69: f"{file_node}::{node.name}"
function_name(file_node, name) == file_node \o "::" \o name

\* line 74: f"{file_node}::{node.name}"
class_name(file_node, name) == file_node \o "::" \o name

\* line 80: f"{class_name}::{item.name}"
method_name(cls, name) == cls \o "::" \o name

method_edge_reversed(cls, method) == <<method, cls>>

\* line 82: G.add_edge(class_name, method_name)
method_edge(cls, method) == <<cls, method>>

full_name_alias_only(module, alias) == alias

\* line 20: f"{module}.{alias.name}" if module else alias.name
full_name(module, alias) == IF module # "" THEN module \o "." \o alias ELSE alias

(***************************************************************************)
(* parse_imports, lines 12-23: the dict of imported names of a tree.       *)
(***************************************************************************)
RECURSIVE import_aliases(_, _, _)
\* lines 15-16 and 19-21: one dict entry per alias of the statement
import_aliases(imports, node, i) ==
  IF i > Len(node.names)
  THEN imports
  ELSE LET key == IF node.kind = "Import"
                  THEN node.names[i]
                  ELSE full_name(node.module, node.names[i])
       IN import_aliases((key :> {node.names[i]}) @@ imports, node, i + 1)

RECURSIVE import_nodes(_, _)
import_nodes(imports, nodes) ==
  IF nodes = <<>>
  THEN imports
  ELSE LET node == Head(nodes)
       IN import_nodes(IF node.kind \in {"Import", "ImportFrom"}
                       THEN import_aliases(imports, node, 1)
                       ELSE imports,
                       Tail(nodes))

parse_imports(tree) == import_nodes(<<>>, walk(tree))

(***************************************************************************)
(* build_import_graph.  The builder's locals G, function_codes and         *)
(* class_codes are carried in one record by the operators below; the       *)
(* actions apply them one loop iteration at a time.                        *)
(***************************************************************************)
RECURSIVE add_methods(_, _, _)
\* lines 78-83: the FunctionDef items of a class body
add_methods(st, cls, items) ==
  IF items = <<>>
  THEN st
  ELSE LET item == Head(items)
           m == method_name(cls, item.name)
       IN add_methods(IF item.kind = "FunctionDef"
                      THEN [st EXCEPT
                              !.G = add_edge(add_node(@, m, MethodAttrs), method_edge(cls, m)),
                              !.function_codes = (m :> get_function_code(item)) @@ @]
                      ELSE st,
                      cls, Tail(items))

\* lines 68-83: the body of the loop over ast.walk(tree), for one node
visit(st, file_node, node) ==
  CASE node.kind = "FunctionDef" ->
         LET func_name == function_name(file_node, node.name)
         IN [st EXCEPT
               !.G = add_edge(add_node(@, func_name, FunctionAttrs), <<file_node, func_name>>),
               !.function_codes = (func_name :> get_function_code(node)) @@ @]
    [] node.kind = "ClassDef" ->
         LET cls == class_name(file_node, node.name)
         IN add_methods([st EXCEPT
                           !.G = add_edge(add_node(@, cls, ClassAttrs), <<file_node, cls>>),
                           !.class_codes = (cls :> get_class_code(node)) @@ @],
                        cls, node.body)
    [] OTHER -> st

\* lines 85-88: a Module node and an edge for every key of the imports dict
add_imports(st, file_node, imports) ==
  [st EXCEPT
     !.G = [nodes |-> [m \in DOMAIN imports |-> ModuleAttrs] @@ @.nodes,
            edges |-> @.edges \cup {<<file_node, m>> : m \in DOMAIN imports}]]

\* lines 59-62: the File node of a .py file
add_file(st, file_path) == [st EXCEPT !.G = add_node(@, file_path, FileAttrs)]

\* line 90: {**function_codes, **class_codes}
merge_codes(st) == st.class_codes @@ st.function_codes

(***************************************************************************)
(* mark_dead_code, lines 25-28.                                            *)
(***************************************************************************)
mark_dead_code(G, file_nodes) ==
  [G EXCEPT !.nodes =
     [n \in DOMAIN G.nodes |->
        IF (\E p \in DOMAIN file_nodes : file_nodes[p] = n) /\ out_degree(G, n) = 0
        THEN [G.nodes[n] EXCEPT !.color = "red"]
        ELSE G.nodes[n]]]

(***************************************************************************)
(* The page written by create_interactive_graph.                           *)
(***************************************************************************)
\* line 124: f"{node}<br>Type: {G.nodes[node]['type']}"
node_text(node, type) == node \o "<br>Type: " \o type

NodeTypes == {"file", "function", "class", "module"}

\* lines 181-183: nodeName and nodeType recovered from point.text
split_text(text, names) ==
  CHOOSE nt \in names \X NodeTypes : text = node_text(nt[1], nt[2])

\* line 193
CodeNotAvailable == "Code not available"

\* line 204
no_preview(nodeType, nodeName) == "No preview available for " \o nodeType \o ": " \o nodeName

\* lines 144-150: the preview box starts hidden and empty
HiddenPreview == [display |-> "none", content |-> ""]

\* read_file_content, line 35, for a file that cannot be read
read_error(e) == "Error reading file: " \o e

\* read_file_content, line 33: the text of a file
file_text(tree) ==
  IF tree.kind = "SyntaxError"
  THEN "def ("
  ELSE IF tree.body = <<>>
       THEN ""
       ELSE unparse(tree.body[1], "") \o unparse_stmts(Tail(tree.body), "")

(***************************************************************************)
(* State.                                                                  *)
(***************************************************************************)
VARIABLES
  content,         \* file path -> syntax tree of the file, or Unparseable
  pc,              \* position in the run
  visited,         \* the files os.walk has yielded so far
  file_path,       \* the file of the current loop iteration
  todo,            \* the deque of ast.walk
  st,              \* G, function_codes and class_codes of build_import_graph
  file_nodes,      \* the dict file_nodes
  function_codes,  \* the third value build_import_graph returns
  dead_marked,     \* mark_dead_code has run on G
  page,            \* the node texts and colours written to the page
  preview,         \* the preview box of the page
  click,           \* the last plotly_click: its node and how far its handler got
  clicks           \* the number of clicks so far

vars == <<content, pc, visited, file_path, todo, st, file_nodes,
          function_codes, dead_marked, page, preview, click, clicks>>

buildVars == <<visited, file_path, todo, st, file_nodes, function_codes>>

pageVars == <<page, preview, click, clicks>>

NoClick == [node |-> "", type |-> "", handler |-> "idle"]

Init ==
  /\ content \in [Paths -> Contents]
  /\ pc = "files"
  /\ visited = {}
  /\ file_path = ""
  /\ todo = <<>>
  /\ st = [G |-> EmptyGraph, function_codes |-> <<>>, class_codes |-> <<>>]
  /\ file_nodes = <<>>
  /\ function_codes = <<>>
  /\ dead_marked = FALSE
  /\ page = {}
  /\ preview = HiddenPreview
  /\ click = NoClick
  /\ clicks = 0

(***************************************************************************)
(* build_import_graph, lines 50-90.                                        *)
(***************************************************************************)
\* lines 56-65: the next .py file, in whatever order os.walk yields them;
\* ast.parse raises SyntaxError on a malformed file and nothing catches it
OpenFile(p) ==
  /\ pc = "files"
  /\ p \in Paths \ visited
  /\ file_path' = p
  /\ st' = add_file(st, p)
  /\ file_nodes' = (p :> p) @@ file_nodes
  /\ IF content[p] = Unparseable
     THEN pc' = "raised" /\ todo' = <<>>
     ELSE pc' = "decls" /\ todo' = <<content[p]>>
  /\ UNCHANGED <<content, visited, function_codes, dead_marked, pageVars>>

\* lines 67-83: one iteration of the loop over ast.walk(tree)
WalkStep ==
  /\ pc = "decls"
  /\ todo # <<>>
  /\ todo' = Tail(todo) \o iter_child_nodes(Head(todo))
  /\ st' = visit(st, file_path, Head(todo))
  /\ UNCHANGED <<content, pc, visited, file_path, file_nodes,
                 function_codes, dead_marked, pageVars>>

\* lines 85-88, then back to the loop over the files
AddImports ==
  /\ pc = "decls"
  /\ todo = <<>>
  /\ st' = add_imports(st, file_path, parse_imports(content[file_path]))
  /\ visited' = visited \cup {file_path}
  /\ pc' = "files"
  /\ UNCHANGED <<content, file_path, todo, file_nodes,
                 function_codes, dead_marked, pageVars>>

\* line 90
Return ==
  /\ pc = "files"
  /\ visited = Paths
  /\ function_codes' = merge_codes(st)
  /\ pc' = "built"
  /\ UNCHANGED <<content, visited, file_path, todo, st, file_nodes,
                 dead_marked, pageVars>>

(***************************************************************************)
(* mark_dead_code(G, file_nodes), lines 25-28.  main never calls it (it is *)
(* no step of Spec); a client of the module's functions may, on the graph  *)
(* build_import_graph returned (ClientSpec).                               *)
(***************************************************************************)
MarkDeadCode ==
  /\ pc = "built"
  /\ st' = [st EXCEPT !.G = mark_dead_code(@, file_nodes)]
  /\ dead_marked' = TRUE
  /\ UNCHANGED <<content, pc, visited, file_path, todo, file_nodes,
                 function_codes, pageVars>>

(***************************************************************************)
(* create_interactive_graph, lines 92-269; in main it follows              *)
(* build_import_graph directly (lines 272-273).                            *)
(***************************************************************************)
CreateInteractiveGraph ==
  /\ pc = "built"
  /\ page' = {[text |-> node_text(n, st.G.nodes[n].type), color |-> st.G.nodes[n].color] :
                n \in DOMAIN st.G.nodes}
  /\ pc' = "rendered"
  /\ UNCHANGED <<content, buildVars, dead_marked, preview, click, clicks>>

(***************************************************************************)
(* The plotly_click handler of the page, lines 179-207.                    *)
(***************************************************************************)
\* lines 180-206, up to the fetch for a File node
Click(point) ==
  /\ pc = "rendered"
  /\ click.handler # "pending"
  /\ clicks < MaxClicks
  /\ clicks' = clicks + 1
  /\ point \in page
  /\ LET nt == split_text(point.text, DOMAIN st.G.nodes)
         nodeName == nt[1]
         nodeType == nt[2]
     IN IF nodeType \in {"function", "class"}
        THEN /\ preview' = [display |-> "block",
                            content |-> IF nodeName \in DOMAIN function_codes
                                           /\ function_codes[nodeName] # ""
                                        THEN function_codes[nodeName]
                                        ELSE CodeNotAvailable]
             /\ click' = [node |-> nodeName, type |-> nodeType, handler |-> "done"]
        ELSE IF nodeType = "file"
        THEN /\ preview' = preview
             /\ click' = [node |-> nodeName, type |-> nodeType, handler |-> "pending"]
        ELSE /\ preview' = [display |-> "block", content |-> no_preview(nodeType, nodeName)]
             /\ click' = [node |-> nodeName, type |-> nodeType, handler |-> "done"]
  /\ UNCHANGED <<content, pc, buildVars, dead_marked, page>>

\* what the content service may answer for a file: its text, or the text
\* read_file_content makes of an exception
Responses(p) == {file_text(content[p]), read_error("[Errno 13] Permission denied")}

\* lines 198-202: the request got a response; its text is shown
FetchResponse(text) ==
  /\ click.handler = "pending"
  /\ text \in Responses(click.node)
  /\ preview' = [display |-> "block", content |-> text]
  /\ click' = [click EXCEPT !.handler = "done"]
  /\ UNCHANGED <<content, pc, buildVars, dead_marked, page, clicks>>

\* line 197: the request failed (no connection, no such endpoint, timeout);
\* the promise rejects and the chain has no catch
FetchFailure ==
  /\ click.handler = "pending"
  /\ click' = [click EXCEPT !.handler = "unhandled rejection"]
  /\ UNCHANGED <<content, pc, buildVars, dead_marked, page, preview, clicks>>

Build ==
  \/ \E p \in Paths : OpenFile(p)
  \/ WalkStep
  \/ AddImports
  \/ Return

\* main (lines 271-274) and the page it writes
Next ==
  \/ Build
  \/ CreateInteractiveGraph
  \/ \E point \in page : Click(point)
  \/ \E text \in UNION {Responses(p) : p \in Paths} : FetchResponse(text)
  \/ FetchFailure

Spec == Init /\ [][Next]_vars

\* a client that calls build_import_graph, mark_dead_code and create_interactive_graph
ClientNext ==
  \/ Build
  \/ MarkDeadCode
  \/ CreateInteractiveGraph

ClientSpec == Init /\ [][ClientNext]_vars

(***************************************************************************)
(* Vocabulary of the properties.                                           *)
(***************************************************************************)
Nodes == DOMAIN st.G.nodes

Edges == st.G.edges

TypeOf(n) == st.G.nodes[n].type

ColorOf(n) == st.G.nodes[n].color

Built == pc = "built"

FileNodeSet == {n \in Nodes : TypeOf(n) = "file"}

DeclNodeSet == {n \in Nodes : TypeOf(n) \in {"function", "class"}}

ModuleNodeSet == {n \in Nodes : TypeOf(n) = "module"}

\* an edge into a Function or Class node
ContainmentEdges == {e \in Edges : e[2] \in DeclNodeSet}

\* an edge into a Module node
ReferenceEdges == {e \in Edges : e[2] \in ModuleNodeSet}

Incoming(E, n) == {e \in E : e[2] = n}

SeqToSet(q) == {q[i] : i \in DOMAIN q}

StmtsOf(p) == IF content[p] = Unparseable THEN {} ELSE SeqToSet(walk(content[p]))

BadFiles == {p \in Paths : content[p] = Unparseable}

\* the whole of build_import_graph for the files of a sequence, one after the other
RECURSIVE VisitAll(_, _, _)
VisitAll(s, file_node, nodes) ==
  IF nodes = <<>> THEN s ELSE VisitAll(visit(s, file_node, Head(nodes)), file_node, Tail(nodes))

RECURSIVE BuildInOrder(_, _)
BuildInOrder(s, order) ==
  IF order = <<>>
  THEN s
  ELSE LET p == Head(order)
           t == content[p]
       IN BuildInOrder(add_imports(VisitAll(add_file(s, p), p, walk(t)), p, parse_imports(t)),
                       Tail(order))

EmptyBuild == [G |-> EmptyGraph, function_codes |-> <<>>, class_codes |-> <<>>]

\* the files in the order of their names
RECURSIVE Sorted(_, _)
Sorted(i, keep) ==
  IF i > NumFiles
  THEN <<>>
  ELSE (IF join(Directory, FileNames[i]) \in keep THEN <<join(Directory, FileNames[i])>> ELSE <<>>)
       \o Sorted(i + 1, keep)

\* what build_import_graph returns for the files of a set, visited in the order of their names
ResultFor(keep) ==
  LET s == BuildInOrder(EmptyBuild, Sorted(1, keep))
  IN [G |-> s.G, file_nodes |-> [p \in keep |-> p], function_codes |-> merge_codes(s)]

Returned == [G |-> st.G, file_nodes |-> file_nodes, function_codes |-> function_codes]

(***************************************************************************)
(* C1.                                                                     *)
(***************************************************************************)
\* C1: once build_import_graph has come to an unparseable file, the run does not
\* stop with an exception, and the graph it returns is the graph of the other
\* files alone: the bad file contributes no node and no edge, the others all theirs.
C1_ParseFailureSkipsFile ==
  \A p \in BadFiles :
    p \in DOMAIN file_nodes =>
      /\ pc # "raised"
      /\ pc \in {"built", "rendered"} => Returned = ResultFor(Paths \ BadFiles)

(***************************************************************************)
(* C2.                                                                     *)
(***************************************************************************)
\* C2: in the graph main renders, a File node is marked unreferenced (coloured
\* red by mark_dead_code) exactly when it has no outgoing edge.
C2_DeadFilesMarkedWhenRendered ==
  pc = "rendered" =>
    \A n \in FileNodeSet :
      (out_degree(st.G, n) = 0) <=> ([text |-> node_text(n, "file"), color |-> "red"] \in page)

(***************************************************************************)
(* C3.                                                                     *)
(***************************************************************************)
RECURSIVE JoinScope(_)
JoinScope(chain) ==
  IF Len(chain) = 1 THEN chain[1] ELSE chain[1] \o "::" \o JoinScope(Tail(chain))

RECURSIVE ScopedDecls(_, _)
\* the declarations of a statement list, each with its chain of enclosing
\* scope names, its own name last
ScopedDecls(body, chain) ==
  IF body = <<>>
  THEN {}
  ELSE LET d == Head(body)
       IN (IF d.kind \in {"FunctionDef", "ClassDef"}
           THEN {Append(chain, d.name)} \cup ScopedDecls(d.body, Append(chain, d.name))
           ELSE {})
          \cup ScopedDecls(Tail(body), chain)

DeclChains(p) == IF content[p] = Unparseable THEN {} ELSE ScopedDecls(content[p].body, <<>>)

\* the identity the claim gives a declaration, and that of its nearest enclosing node
ScopedIdentity(p, chain) == p \o "::" \o JoinScope(chain)

EnclosingIdentity(p, chain) ==
  IF Len(chain) = 1 THEN p ELSE ScopedIdentity(p, SubSeq(chain, 1, Len(chain) - 1))

\* C3: in the graph build_import_graph returns, the Function and Class nodes are
\* exactly the declarations of the files, each under the identity
\* path::scope chain::name, and the Containment edges are exactly the edges from
\* each declaration's nearest enclosing node to it.
C3_OneNodePerDeclaration ==
  Built =>
    /\ DeclNodeSet = UNION {{ScopedIdentity(p, c) : c \in DeclChains(p)} : p \in Paths}
    /\ ContainmentEdges =
         UNION {{<<EnclosingIdentity(p, c), ScopedIdentity(p, c)>> : c \in DeclChains(p)} : p \in Paths}

(***************************************************************************)
(* C4.                                                                     *)
(***************************************************************************)
RECURSIVE SumOver(_, _, _)
\* the number of Containment paths from File nodes down to the nodes of a set
SumOver(S, E, fuel) ==
  IF S = {}
  THEN 0
  ELSE LET n == CHOOSE x \in S : TRUE
           here == IF TypeOf(n) = "file"
                   THEN 1
                   ELSE IF fuel = 0
                        THEN 0
                        ELSE SumOver({e[1] : e \in Incoming(E, n)}, E, fuel - 1)
       IN here + SumOver(S \ {n}, E, fuel)

PathsFromFile(n) == SumOver({n}, ContainmentEdges, Cardinality(Nodes))

RECURSIVE Closure(_, _)
\* the transitive closure of a relation over at most k+1 nodes
Closure(R, k) ==
  IF k = 0
  THEN R
  ELSE Closure(R \cup {<<x[1][1], x[2][2]>> : x \in {y \in R \X R : y[1][2] = y[2][1]}}, k - 1)

\* C4: in the graph build_import_graph returns, every Function or Class node
\* has exactly one incoming Containment edge and exactly one path of Containment
\* edges from a File node, and no node reaches itself along Containment edges.
C4_ContainmentForest ==
  Built =>
    /\ \A n \in DeclNodeSet : Cardinality(Incoming(ContainmentEdges, n)) = 1
    /\ \A n \in DeclNodeSet : PathsFromFile(n) = 1
    /\ \A n \in Nodes : <<n, n>> \notin Closure(ContainmentEdges, Cardinality(Nodes))

\* a returned graph with a method under a class under a file
C4_Witness ==
  /\ Built
  /\ \E e1 \in ContainmentEdges, e2 \in ContainmentEdges :
       /\ TypeOf(e1[1]) = "file"
       /\ e1[2] = e2[1]
       /\ TypeOf(e2[1]) = "class"
       /\ TypeOf(e2[2]) = "function"

(***************************************************************************)
(* C5.                                                                     *)
(***************************************************************************)
\* the flat identifiers a file imports: NAME for "import NAME", MODULE.NAME
\* for "from MODULE import NAME", NAME when the from-import names no module
FlatIdentifiers(p) ==
  UNION {{IF s.kind = "Import" \/ s.module = ""
          THEN s.names[i]
          ELSE s.module \o "." \o s.names[i] : i \in DOMAIN s.names}
         : s \in {t \in StmtsOf(p) : t.kind \in {"Import", "ImportFrom"}}}

Importers(X) == {p \in Paths : X \in FlatIdentifiers(p)}

\* C5: in the graph build_import_graph returns, every imported flat identifier
\* is a Module node whose incoming edges are exactly one Reference edge from
\* the File node of each file that imports it; every Module node is such an
\* identifier, and every Reference edge runs from a File node.
C5_ReferenceSharing ==
  Built =>
    /\ \A p \in Paths : \A X \in FlatIdentifiers(p) :
         /\ X \in ModuleNodeSet
         /\ Incoming(Edges, X) = {<<file_nodes[q], X>> : q \in Importers(X)}
    /\ ModuleNodeSet = UNION {FlatIdentifiers(p) : p \in Paths}
    /\ \A e \in ReferenceEdges : e[1] \in FileNodeSet

\* a returned graph where two files import one identifier, one by "import
\* a.b" and one by "from a import b"
C5_Witness ==
  /\ Built
  /\ \E X \in ModuleNodeSet :
       /\ Cardinality(Incoming(ReferenceEdges, X)) = 2
       /\ \E p \in Paths, q \in Paths :
            /\ Import(<<X>>) \in StmtsOf(p)
            /\ \E s \in StmtsOf(q) : s.kind = "ImportFrom" /\ s.module # ""

(***************************************************************************)
(* C6.                                                                     *)
(***************************************************************************)
\* C6: whatever the order in which the files were visited, build_import_graph
\* returns only if every file parses, and then returns what it returns when
\* the files are visited in the order of their names: same nodes with the same
\* kind and colour, same edges, same file_nodes, same snippet map.
C6_OrderIndependent ==
  Built => BadFiles = {} /\ Returned = ResultFor(Paths)

\* a graph returned after the files were visited in the reverse order of their
\* names, each declaring and importing something
C6_Witness ==
  /\ Built
  /\ file_path = join(Directory, FileNames[1])
  /\ \A p \in Paths : FlatIdentifiers(p) # {} /\ DeclChains(p) # {}

(***************************************************************************)
(* C7.                                                                     *)
(***************************************************************************)
\* C7: a node identity that has been added with a kind keeps that kind in
\* every later step.
C7_KindNeverChanges ==
  [][\A n \in DOMAIN st.G.nodes : st'.G.nodes[n].type = st.G.nodes[n].type]_vars

(***************************************************************************)
(* C8.                                                                     *)
(***************************************************************************)
\* File = blue, Function = green, Class = red, Module = yellow
ColorOfKind(type) ==
  CASE type = "file" -> "blue"
    [] type = "function" -> "green"
    [] type = "class" -> "red"
    [] type = "module" -> "yellow"

\* C8 as stated: in every state, also after mark_dead_code, the colour of a
\* node is the colour of its kind.
C8_ColorByKindAlone == \A n \in Nodes : ColorOf(n) = ColorOfKind(TypeOf(n))

\* C8 as amended: in every state the colour of a node is the colour of its
\* kind, except that once mark_dead_code has run a File node without outgoing
\* edges is red.
C8_ColorByKindUnlessMarkedDead ==
  \A n \in Nodes :
    ColorOf(n) = IF dead_marked /\ TypeOf(n) = "file" /\ out_degree(st.G, n) = 0
                 THEN "red"
                 ELSE ColorOfKind(TypeOf(n))

\* mark_dead_code has run on a graph with a File node without outgoing edges,
\* a File node with one, a Class node and a Module node
C8_Witness ==
  /\ dead_marked
  /\ \E n \in FileNodeSet : out_degree(st.G, n) = 0 /\ ColorOf(n) = "red"
  /\ \E n \in FileNodeSet : out_degree(st.G, n) > 0
  /\ \E n \in Nodes : TypeOf(n) = "class"
  /\ ModuleNodeSet # {}

(***************************************************************************)
(* C9.                                                                     *)
(***************************************************************************)
\* C9: when the click handler has ended for a File node, it has shown a
\* result in the preview box: the text the content service answered.
C9_FilePreviewAlwaysShown ==
  (click.type = "file" /\ click.handler \notin {"idle", "pending"}) =>
    /\ click.handler = "done"
    /\ preview.display = "block"
    /\ preview.content \in Responses(click.node)

(***************************************************************************)
(* C10.                                                                    *)
(***************************************************************************)
AllStmts == UNION {StmtsOf(p) : p \in Paths}

FunctionTexts == {get_function_code(d) : d \in {t \in AllStmts : t.kind = "FunctionDef"}}

ClassTexts == {get_class_code(d) : d \in {t \in AllStmts : t.kind = "ClassDef"}}

\* C10: the keys of the snippet map build_import_graph returns are exactly the
\* Function and Class nodes, a Function node's snippet is the text of a
\* function definition and a Class node's snippet the text of a class definition.
C10_SnippetMatchesKind ==
  Built =>
    /\ DOMAIN function_codes = DeclNodeSet
    /\ \A n \in DeclNodeSet :
         /\ TypeOf(n) = "function" => function_codes[n] \in FunctionTexts
         /\ TypeOf(n) = "class" => function_codes[n] \in ClassTexts

=============================================================================
